---------------------------- MODULE Spec2Model ----------------------------
(***************************************************************************)
(* go-wayback: a model of the four historical versions of the tool.        *)
(*                                                                         *)
(*   PipeSpec    the concurrent version (processURLs, its line workers,    *)
(*               the collector loop of main and writeOutput).              *)
(*   RenderSpec  v2.0.1: what processURL does with a response body (the    *)
(*               subdomain branch and the four renderers).                 *)
(*   MainSpec    v2.0.1: main's domain loop, the rate limiter, the         *)
(*               outcomes of processURL and its sink.                      *)
(*   CliSpec     all four mains from flag parsing to the output.           *)
(*   LegacySpec  main.go and part_000: from the response to the output     *)
(*               file (the line loop, uniqueStrings, the CSV and the text  *)
(*               output).                                                  *)
(*                                                                         *)
(* Strings are sequences of lexical tokens (a scheme literal such as       *)
(* "http://" is one token, a host label is one token, "/" ":" "." "*" are  *)
(* tokens).  A response line is the sequence of its whitespace-separated   *)
(* fields, i.e. the value of strings.Fields(line); the blank line is <<>>, *)
(* which is exactly the case strings.TrimSpace(line) == "".                *)
(***************************************************************************)
EXTENDS Integers, Sequences, FiniteSets, TLC

\* ------------------------------------------------------------------ bounds
MaxLines == 2
MaxConcurrent == 2

\* ----------------------------------------------------------------- strings
HTTP == "http://"
HTTPS == "https://"

UrlA == <<HTTP, "a", "/", "x">>
UrlB == <<"b", "/", "y">>
UrlBad == <<HTTP, "%zz">>

TsOld == "20200101000000"
TsNew == "20240601000000"

\* strings.HasPrefix(s, p) for a one-token prefix p
HasPrefix(s, p) == Len(s) > 0 /\ s[1] = p

\* strings.Index(s, c): the first position of token c in s, 0 when absent
\* (Go's -1)
Index(s, c) ==
  IF \E k \in 1..Len(s) : s[k] = c
    THEN CHOOSE k \in 1..Len(s) : s[k] = c /\ \A j \in 1..(k - 1) : s[j] # c
    ELSE 0

\* url.Parse(u): err is set for an invalid percent escape; Host is the
\* authority (port kept) of a URL that has a scheme, and empty otherwise.
UrlParse(u) ==
  IF \E k \in 1..Len(u) : u[k] = "%zz"
    THEN [err |-> TRUE, Host |-> <<>>]
    ELSE IF HasPrefix(u, HTTP) \/ HasPrefix(u, HTTPS)
      THEN LET rest == Tail(u)
               cut == Index(rest, "/")
           IN [err |-> FALSE,
               Host |-> IF cut = 0 THEN rest ELSE SubSeq(rest, 1, cut - 1)]
      ELSE [err |-> FALSE, Host |-> <<>>]

\* fmt.Sprintf("https://web.archive.org/web/%s/%s", timestamp, url)
BrowsableLink(timestamp, url) ==
  <<"https://web.archive.org/web/", timestamp, "/">> \o url

\* ------------------------------------------------- the concurrent version
\* The response lines the model draws from: blank, two fields, three fields,
\* four fields with an unparsable URL (and, for the render step of v2.0.1,
\* four fields with a scheme-less URL).
LineBlank == <<>>
LineShort == <<UrlA, "10">>
LineA == <<UrlA, "10", TsOld>>
LineB == <<UrlB, "5", TsNew, "extra">>
LineBad == <<UrlBad, "7", TsNew, "extra">>
LineKinds == {LineBlank, LineShort, LineA, LineBad}

BoundedSeq(S, n) == UNION {[1..k -> S] : k \in 1..n}

VARIABLES
  config,            \* Config
  lines,             \* strings.Split(body, "\n"): at least one element
  spawned,           \* processURLs: number of lines the range loop has passed
  ppc,               \* processURLs: "spawn" | "wait" | "closed"
  wg,                \* sync.WaitGroup counter
  semaphore,         \* number of tokens in the semaphore channel
  wpc,               \* per line: "idle" | "acquire" | "send" | "release" | "wgdone" | "done"
  wresult,           \* per line: the WaybackResult its worker built
  results,           \* the results channel: its buffered queue
  closed,            \* the results channel: close(results) has run
  cpc,               \* main: "recv" | "write" | "done"
  received,          \* history: every value the collector's range loop received
  processedResults,  \* main: processedResults
  uniqueURLs,        \* main: uniqueURLs
  output,            \* what writeOutput wrote to the writer
  \* --- v2.0.1, one render step (the part of processURL after the read)
  rcfg,              \* Config
  rbody,             \* strings.Split(string(bodyBytes), "\n")
  rpc,               \* "ready" | "done"
  rout,              \* what the render step wrote to its writer
  \* --- v2.0.1, main: the domain loop, the rate limiter, processURL
  mcfg,              \* Config
  urls,              \* main: urls
  di,                \* main: number of domains the loop has finished
  upc,               \* "start" | "panic" | "main" | "wait" | "get" | "exit"
  tickerC,           \* number of ticks buffered in ticker.C (capacity 1)
  ticks,             \* history: ticks the ticker has fired
  admitted,          \* history: returns of RateLimiter.Wait
  requests,          \* history: the API URLs of the requests issued
  invoked,           \* history: the arguments of the processURL calls
  outcomes,          \* history: per finished domain, "ok" or its error
  stderrLog,         \* main: the "Error processing ..." reports
  file,              \* content of config.OutputFile, <<"absent">> before Create
  stdout,            \* what was written to os.Stdout
  renderLog,         \* history: per finished domain, what its render step
                     \* wrote to the sink and whether its writes failed
  \* --- the mains, from flag parsing to the output
  ver,               \* "v1" main.go | "v1s" part_000 | "conc" | "v2"
  flags,             \* the four mode flags
  arg,               \* flag.Arg(0)
  clipc,             \* "start" | "rejected" | "validated" | "fetched" | "written"
  cliRequests,       \* the API URLs requested
  cliWrote,          \* output has been written
  \* --- main.go and part_000, from the response to the output file
  lcfg,              \* the version, its mode and -unique-urls
  lbody,             \* lines
  lscanned,          \* number of lines the range loop has passed
  lpc,               \* "scan" | "unique" | "write" | "done" | "exit1"
  loutput,           \* output
  lsubdomainSet,     \* subdomainSet
  lcollected,        \* history: output as it was before uniqueStrings
  lfile              \* content of *outputFile

pipeVars == <<config, lines, spawned, ppc, wg, semaphore, wpc, wresult,
              results, closed, cpc, received, processedResults, uniqueURLs,
              output>>


renderVars == <<rcfg, rbody, rpc, rout>>

mainVars == <<mcfg, urls, di, upc, tickerC, ticks, admitted, requests,
              invoked, outcomes, stderrLog, file, stdout, renderLog>>

cliVars == <<ver, flags, arg, clipc, cliRequests, cliWrote>>

legacyVars == <<lcfg, lbody, lscanned, lpc, loutput, lsubdomainSet,
                lcollected, lfile>>

vars == <<pipeVars, renderVars, mainVars, cliVars, legacyVars>>

\* the state of the versions a specification does not run
RenderIdle == rcfg = "none" /\ rbody = <<>> /\ rpc = "off" /\ rout = <<>>

PipeIdle ==
  /\ config = "none" /\ lines = <<>> /\ spawned = 0 /\ ppc = "off" /\ wg = 0
  /\ semaphore = 0 /\ wpc = <<>> /\ wresult = <<>> /\ results = <<>>
  /\ closed = FALSE /\ cpc = "off" /\ received = <<>>
  /\ processedResults = <<>> /\ uniqueURLs = {} /\ output = <<>>

MainIdle ==
  /\ mcfg = "none" /\ urls = <<>> /\ di = 0 /\ upc = "off" /\ tickerC = 0
  /\ ticks = 0 /\ admitted = 0 /\ requests = <<>> /\ invoked = <<>>
  /\ outcomes = <<>> /\ stderrLog = <<>> /\ file = <<>> /\ stdout = <<>>
  /\ renderLog = <<>>

CliIdle ==
  /\ ver = "none" /\ flags = "none" /\ arg = <<>> /\ clipc = "off"
  /\ cliRequests = <<>> /\ cliWrote = FALSE

LegacyIdle ==
  /\ lcfg = "none" /\ lbody = <<>> /\ lscanned = 0 /\ lpc = "off"
  /\ loutput = <<>> /\ lsubdomainSet = {} /\ lcollected = <<>>
  /\ lfile = <<>>

NoResult == [URL |-> <<>>, Length |-> "", Timestamp |-> "", Error |-> FALSE]

PipeConfigs ==
  [Concurrent : 0..MaxConcurrent, Subdomain : BOOLEAN, Browsable : BOOLEAN,
   UniqueURLs : BOOLEAN, Verbose : BOOLEAN, SaveCSV : BOOLEAN]

PipeInit ==
  /\ config \in PipeConfigs
  /\ lines \in BoundedSeq(LineKinds, MaxLines)
  /\ spawned = 0
  /\ ppc = "spawn"
  /\ wg = 0
  /\ semaphore = 0
  /\ wpc = [i \in 1..Len(lines) |-> "idle"]
  /\ wresult = [i \in 1..Len(lines) |-> NoResult]
  /\ results = <<>>
  /\ closed = FALSE
  /\ cpc = "recv"
  /\ received = <<>>
  /\ processedResults = <<>>
  /\ uniqueURLs = {}
  /\ output = <<>>
  /\ RenderIdle /\ MainIdle /\ CliIdle /\ LegacyIdle

\* make(chan WaybackResult, len(lines))
ResultsCap == Len(lines)

\* processURLs, one iteration of `for _, line := range lines`
SpawnLine ==
  /\ ppc = "spawn"
  /\ spawned < Len(lines)
  /\ LET i == spawned + 1 IN
       IF lines[i] = <<>>
         THEN UNCHANGED <<wg, wpc>>
         ELSE /\ wg' = wg + 1
              /\ wpc' = [wpc EXCEPT ![i] = "acquire"]
  /\ spawned' = spawned + 1
  /\ UNCHANGED <<config, lines, ppc, semaphore, wresult, results, closed, cpc,
                 received, processedResults, uniqueURLs, output>>
  /\ UNCHANGED <<renderVars, mainVars, cliVars, legacyVars>>

\* processURLs, the range loop is over
SpawnDone ==
  /\ ppc = "spawn"
  /\ spawned = Len(lines)
  /\ ppc' = "wait"
  /\ UNCHANGED <<config, lines, spawned, wg, semaphore, wpc, wresult, results,
                 closed, cpc, received, processedResults, uniqueURLs, output>>
  /\ UNCHANGED <<renderVars, mainVars, cliVars, legacyVars>>

\* wg.Wait() returns when the counter is zero
WaitReturnsAlways == TRUE
WaitReturns == wg = 0

\* processURLs: wg.Wait(); close(results)
WaitAndClose ==
  /\ ppc = "wait"
  /\ WaitReturns
  /\ closed' = TRUE
  /\ ppc' = "closed"
  /\ UNCHANGED <<config, lines, spawned, wg, semaphore, wpc, wresult, results,
                 cpc, received, processedResults, uniqueURLs, output>>
  /\ UNCHANGED <<renderVars, mainVars, cliVars, legacyVars>>

\* the worker's result for a line of at least three fields
BuildResult(fields, cfg) ==
  LET result == [URL |-> fields[1], Length |-> fields[2],
                 Timestamp |-> fields[3], Error |-> FALSE]
  IN IF cfg.Subdomain
       THEN LET p == UrlParse(result.URL)
            IN IF p.err THEN [result EXCEPT !.Error = TRUE]
                        ELSE [result EXCEPT !.URL = p.Host]
       ELSE IF cfg.Browsable
         THEN [result EXCEPT !.URL = BrowsableLink(result.Timestamp, result.URL)]
         ELSE result

\* a send on the semaphore channel proceeds while its buffer has room; with
\* capacity 0 it needs a receiver, and the only receives are the releases
CanAcquire(sem, cfg) == sem < cfg.Concurrent

\* where the worker goes after strings.Fields: to the send, or, by the early
\* return, straight to its deferred release
AfterFieldsLeak(fields) == IF Len(fields) < 3 THEN "wgdone" ELSE "send"
AfterFieldsDropsThree(fields) == IF Len(fields) <= 3 THEN "release" ELSE "send"
AfterFields(fields) == IF Len(fields) < 3 THEN "release" ELSE "send"

\* worker: semaphore <- struct{}{}; fields := strings.Fields(line); build
Acquire(i) ==
  /\ wpc[i] = "acquire"
  /\ CanAcquire(semaphore, config)
  /\ semaphore' = semaphore + 1
  /\ wpc' = [wpc EXCEPT ![i] = AfterFields(lines[i])]
  /\ wresult' = [wresult EXCEPT ![i] =
                   IF Len(lines[i]) < 3 THEN NoResult
                                        ELSE BuildResult(lines[i], config)]
  /\ UNCHANGED <<config, lines, spawned, ppc, wg, results, closed, cpc,
                 received, processedResults, uniqueURLs, output>>
  /\ UNCHANGED <<renderVars, mainVars, cliVars, legacyVars>>

\* worker: results <- result
Send(i) ==
  /\ wpc[i] = "send"
  /\ Len(results) < ResultsCap
  /\ results' = Append(results, wresult[i])
  /\ wpc' = [wpc EXCEPT ![i] = "release"]
  /\ UNCHANGED <<config, lines, spawned, ppc, wg, semaphore, wresult, closed,
                 cpc, received, processedResults, uniqueURLs, output>>
  /\ UNCHANGED <<renderVars, mainVars, cliVars, legacyVars>>

\* worker: the deferred <-semaphore
Release(i) ==
  /\ wpc[i] = "release"
  /\ semaphore > 0
  /\ semaphore' = semaphore - 1
  /\ wpc' = [wpc EXCEPT ![i] = "wgdone"]
  /\ UNCHANGED <<config, lines, spawned, ppc, wg, wresult, results, closed,
                 cpc, received, processedResults, uniqueURLs, output>>
  /\ UNCHANGED <<renderVars, mainVars, cliVars, legacyVars>>

\* worker: the deferred wg.Done()
WgDone(i) ==
  /\ wpc[i] = "wgdone"
  /\ wg' = wg - 1
  /\ wpc' = [wpc EXCEPT ![i] = "done"]
  /\ UNCHANGED <<config, lines, spawned, ppc, semaphore, wresult, results,
                 closed, cpc, received, processedResults, uniqueURLs, output>>
  /\ UNCHANGED <<renderVars, mainVars, cliVars, legacyVars>>

\* main: one iteration of `for result := range results`
Collect ==
  /\ cpc = "recv"
  /\ results # <<>>
  /\ LET result == Head(results) IN
       /\ results' = Tail(results)
       /\ received' = Append(received, result)
       /\ IF result.Error /\ config.Verbose
            THEN UNCHANGED <<processedResults, uniqueURLs>>
            ELSE IF config.UniqueURLs
              THEN IF result.URL \notin uniqueURLs
                     THEN /\ uniqueURLs' = uniqueURLs \cup {result.URL}
                          /\ processedResults' = Append(processedResults, result)
                     ELSE UNCHANGED <<processedResults, uniqueURLs>>
              ELSE /\ processedResults' = Append(processedResults, result)
                   /\ UNCHANGED uniqueURLs
  /\ UNCHANGED <<config, lines, spawned, ppc, wg, semaphore, wpc, wresult,
                 closed, cpc, output>>
  /\ UNCHANGED <<renderVars, mainVars, cliVars, legacyVars>>

\* main: the range loop ends when the channel is closed and drained
CollectEnd ==
  /\ cpc = "recv"
  /\ results = <<>>
  /\ closed
  /\ cpc' = "write"
  /\ UNCHANGED <<config, lines, spawned, ppc, wg, semaphore, wpc, wresult,
                 results, closed, received, processedResults, uniqueURLs,
                 output>>
  /\ UNCHANGED <<renderVars, mainVars, cliVars, legacyVars>>

\* writeOutput: the CSV header and one row per result, or one URL per line
WriteOutputRows(rs, cfg) ==
  IF cfg.SaveCSV
    THEN <<(<<"URL", "LENGTH", "TIMESTAMP">>)>> \o
         [k \in 1..Len(rs) |-> <<rs[k].URL, rs[k].Length, rs[k].Timestamp>>]
    ELSE [k \in 1..Len(rs) |-> <<rs[k].URL>>]

\* main: writeOutput(writer, processedResults, config)
WriteOutput ==
  /\ cpc = "write"
  /\ output' = WriteOutputRows(processedResults, config)
  /\ cpc' = "done"
  /\ UNCHANGED <<config, lines, spawned, ppc, wg, semaphore, wpc, wresult,
                 results, closed, received, processedResults, uniqueURLs>>
  /\ UNCHANGED <<renderVars, mainVars, cliVars, legacyVars>>

PipeNext ==
  \/ SpawnLine
  \/ SpawnDone
  \/ WaitAndClose
  \/ \E i \in 1..Len(lines) : Acquire(i)
  \/ \E i \in 1..Len(lines) : Send(i)
  \/ \E i \in 1..Len(lines) : Release(i)
  \/ \E i \in 1..Len(lines) : WgDone(i)
  \/ Collect
  \/ CollectEnd
  \/ WriteOutput

PipeSpec == PipeInit /\ [][PipeNext]_vars

\* ---------------------------------------------- claims on the pipeline
Count(seq, x) == Cardinality({k \in 1..Len(seq) : seq[k] = x})
Range(seq) == {seq[k] : k \in 1..Len(seq)}
SameBag(s, t) ==
  /\ Len(s) = Len(t)
  /\ \A x \in Range(s) \cup Range(t) : Count(s, x) = Count(t, x)
SubBag(s, t) == \A x \in Range(s) : Count(s, x) <= Count(t, x)

\* the lines that are not blank and have at least three fields
WellFormed == {i \in 1..Len(lines) : Len(lines[i]) >= 3}
Triple(r) == <<r.URL, r.Length, r.Timestamp>>
ReceivedTriples == [k \in 1..Len(received) |-> Triple(received[k])]
SeqOfSet(f, S) ==
  LET idx == CHOOSE q \in [1..Cardinality(S) -> S] :
               \A a, b \in 1..Cardinality(S) : a < b => q[a] < q[b]
  IN [k \in 1..Cardinality(S) |-> f[idx[k]]]

\* C1: once the results channel is closed, every spawned worker has finished
\* (it is past its send and past wg.Done), and no non-blank line is still
\* waiting to be spawned: no send can follow the close.
C1_CloseAfterWorkers ==
  closed => \A i \in 1..Len(lines) :
              wpc[i] = (IF lines[i] = <<>> THEN "idle" ELSE "done")

C1_Witness ==
  /\ closed
  /\ Len(lines) >= 2
  /\ \A i \in 1..Len(lines) : Len(lines[i]) >= 3 /\ wpc[i] = "done"
  /\ config.Concurrent >= 2

\* C2 (as stated): when the collector's loop has ended it has received, for
\* each line of at least three fields, exactly one record carrying the line's
\* first three fields verbatim, and at no time has it received more.
VerbatimTriples ==
  SeqOfSet([i \in 1..Len(lines) |->
              IF Len(lines[i]) >= 3
                THEN <<lines[i][1], lines[i][2], lines[i][3]>> ELSE <<>>],
           WellFormed)

DeliveredURL(f) ==
  CASE config.Subdomain /\ ~UrlParse(f[1]).err -> UrlParse(f[1]).Host
    [] config.Subdomain /\ UrlParse(f[1]).err -> f[1]
    [] ~config.Subdomain /\ config.Browsable ->
         <<"https://web.archive.org/web/", f[3], "/">> \o f[1]
    [] OTHER -> f[1]

DeliveredTriples ==
  SeqOfSet([i \in 1..Len(lines) |->
              IF Len(lines[i]) >= 3
                THEN <<DeliveredURL(lines[i]), lines[i][2], lines[i][3]>>
                ELSE <<>>],
           WellFormed)

Holding == {i \in 1..Len(lines) : wpc[i] \in {"send", "release"}}

C3_SemaphoreBound ==
  /\ semaphore = Cardinality(Holding)
  /\ Cardinality(Holding) <= config.Concurrent

C3_Witness ==
  \E i, j \in 1..Len(lines) :
    /\ i # j
    /\ Len(lines[i]) \in {1, 2}
    /\ wpc[i] = "wgdone"
    /\ wpc[j] = "release"
    /\ semaphore = config.Concurrent

\* C4 (as stated): for every concurrency limit >= 0 the pipeline runs to
\* completion: whenever no step of the pipeline is possible, main has left
\* the collector loop and written its output.
C4_NeverStuck == cpc = "done" \/ ENABLED PipeNext

\* ------------------------------------------------- v2.0.1: the render step
MaxBody == 3
MaxCap == 2

UrlC == <<HTTPS, "A", ":", "8", "/">>
TsGarbage == "garbage"

LineA2 == <<UrlA, "11", TsNew>>
LineC == <<UrlC, "7", TsGarbage>>
RenderLineKinds == {LineBlank, LineShort, LineA, LineA2, LineB, LineC}

\* lines for the subdomain branch: URLs that carry two schemes, and a line
\* of one field
UrlTwoSchemes == <<HTTP, HTTPS, "b", "/", "y">>
UrlInnerScheme == <<HTTPS, HTTP, "a">>
LineTwoSchemes == <<UrlTwoSchemes, "3", TsOld>>
LineInnerScheme == <<UrlInnerScheme, "4", TsNew>>
LineOne == <<UrlB>>
SubdomainLineKinds ==
  RenderLineKinds \cup {LineTwoSchemes, LineInnerScheme, LineOne}

\* the -filter values the model draws from: none, a pattern regexp.Compile
\* rejects, and the literal "a"
PatNone == ""
PatInvalid == "("
PatLiteral == "a"

\* the dates of -start-date and -end-date, as yyyymmdd numbers
StartFlag == "2023-01-01"
EndFlag == "2023-12-31"

\* The configurations the render step is run with.  The subdomain branch of
\* processURL reads no other field of Config, so with -subdomain the other
\* flags keep their defaults.
RenderConfigs ==
  {c \in [OutputFormat : {"text", "json", "JSON", "xml", "csv"},
          Subdomain : BOOLEAN, Browsable : BOOLEAN, UniqueURLs : BOOLEAN,
          MaxResults : 0..MaxCap,
          RegexFilter : {PatNone, PatInvalid, PatLiteral},
          StartDate : {"", StartFlag}, EndDate : {"", EndFlag}] :
     c.Subdomain =>
       /\ c.OutputFormat = "text" /\ ~c.Browsable /\ ~c.UniqueURLs
       /\ c.MaxResults = 0 /\ c.RegexFilter = PatNone
       /\ c.StartDate = "" /\ c.EndDate = ""}

\* regexp.Compile(p) succeeds
RegexCompiles(p) == p # PatInvalid

\* regex.MatchString(url) for a literal pattern: the literal occurs in url
MatchString(p, url) == \E k \in 1..Len(url) : url[k] = p

MatchesFilterFailClosed(url, regexPattern) ==
  IF regexPattern = "" THEN TRUE
  ELSE IF ~RegexCompiles(regexPattern) THEN FALSE
  ELSE MatchString(regexPattern, url)

matchesFilter(url, regexPattern) ==
  IF regexPattern = "" THEN TRUE
  ELSE IF ~RegexCompiles(regexPattern) THEN TRUE
  ELSE MatchString(regexPattern, url)

\* time.Parse("20060102150405", ts) as a yyyymmdd number; the zero time
\* (0001-01-01) when ts does not parse
ParseTimestamp(ts) ==
  CASE ts = TsOld -> 20200101
    [] ts = TsNew -> 20240601
    [] OTHER -> 10101

\* time.Now(), as a yyyymmdd number
Today == 20261102

\* processDateRange: the bounds of the date range as yyyymmdd numbers (the
\* zero time when no start date is given, the current time when no end date)
processDateRange(startDate, endDate) ==
  [start |-> IF startDate # "" THEN 20230101 ELSE 10101,
   end |-> IF endDate # "" THEN 20231231 ELSE Today]

\* timestamp.Format(time.RFC3339)
FormatRFC3339(d) ==
  CASE d = 20200101 -> "2020-01-01T00:00:00Z"
    [] d = 20240601 -> "2024-06-01T00:00:00Z"
    [] OTHER -> "0001-01-01T00:00:00Z"

\* the cap test of the renderers' loops, after the record has been counted
CapReachedOffByOne(count, cfg) == cfg.MaxResults > 0 /\ count > cfg.MaxResults
CapReached(count, cfg) == cfg.MaxResults > 0 /\ count >= cfg.MaxResults

\* The loop shared by processTextFormat, processCSVFormat, processJSONFormat
\* and processXMLFormat: the field lists of the lines the loop accepts, in
\* order.  seen is uniqueURLs, count is count.
RECURSIVE ScanLines(_, _, _, _, _)
ScanLines(ls, cfg, seen, count, acc) ==
  IF ls = <<>> THEN acc
  ELSE LET fields == Head(ls)
           rest == Tail(ls)
       IN IF fields = <<>> THEN ScanLines(rest, cfg, seen, count, acc)
          ELSE IF Len(fields) < 3 THEN ScanLines(rest, cfg, seen, count, acc)
          ELSE IF ~matchesFilter(fields[1], cfg.RegexFilter)
            THEN ScanLines(rest, cfg, seen, count, acc)
          ELSE IF cfg.UniqueURLs /\ fields[1] \in seen
            THEN ScanLines(rest, cfg, seen, count, acc)
          ELSE LET seen2 == IF cfg.UniqueURLs THEN seen \cup {fields[1]} ELSE seen
                   acc2 == Append(acc, fields)
               IN IF CapReached(count + 1, cfg) THEN acc2
                  ELSE ScanLines(rest, cfg, seen2, count + 1, acc2)

\* WaybackResult of v2.0.1, as the JSON and XML renderers build it
ResultOf(fields) ==
  [url |-> fields[1], length |-> fields[2], timestamp |-> fields[3],
   date |-> FormatRFC3339(ParseTimestamp(fields[3]))]

\* the CSV renderer's record
CSVRecordOf(fields) ==
  <<fields[1], fields[2], fields[3], FormatRFC3339(ParseTimestamp(fields[3]))>>

\* the text renderer's line
TextLineOf(fields, cfg) ==
  IF cfg.Browsable THEN BrowsableLink(fields[3], fields[1]) ELSE fields[1]

processTextFormat(body, cfg) ==
  LET acc == ScanLines(body, cfg, {}, 0, <<>>)
  IN [k \in 1..Len(acc) |-> TextLineOf(acc[k], cfg)]

processCSVFormat(body, cfg) ==
  LET acc == ScanLines(body, cfg, {}, 0, <<>>)
  IN <<(<<"URL", "LENGTH", "TIMESTAMP", "DATE">>)>> \o
     [k \in 1..Len(acc) |-> CSVRecordOf(acc[k])]

processJSONFormat(body, cfg) ==
  LET acc == ScanLines(body, cfg, {}, 0, <<>>)
  IN <<[results |-> [k \in 1..Len(acc) |-> ResultOf(acc[k])],
        count |-> Len(acc)]>>

processXMLFormat(body, cfg) ==
  LET acc == ScanLines(body, cfg, {}, 0, <<>>)
  IN <<"<?xml version=\"1.0\" encoding=\"UTF-8\"?>",
       [results |-> [k \in 1..Len(acc) |-> ResultOf(acc[k])],
        count |-> Len(acc)]>>

\* strings.TrimPrefix(s, p) for a one-token prefix p
TrimPrefix(s, p) == IF HasPrefix(s, p) THEN Tail(s) ELSE s

\* strings.ToLower, token by token
LowerToken(t) ==
  CASE t = "A" -> "a"
    [] t = "B" -> "b"
    [] OTHER -> t
ToLower(s) == [k \in 1..Len(s) |-> LowerToken(s[k])]

\* the characters strings.Index sees: a scheme token is its name, ':', '/', '/'
SchemeChars(t) ==
  CASE t = HTTP -> <<"http", ":", "/", "/">>
    [] t = HTTPS -> <<"https", ":", "/", "/">>
    [] OTHER -> <<t>>

RECURSIVE Chars(_)
Chars(s) == IF s = <<>> THEN <<>> ELSE SchemeChars(Head(s)) \o Chars(Tail(s))

extractSubdomains(URL) ==
  LET u1 == TrimPrefix(URL, HTTP)
      u2 == Chars(TrimPrefix(u1, HTTPS))
      i1 == Index(u2, "/")
      u3 == IF i1 # 0 THEN SubSeq(u2, 1, i1 - 1) ELSE u2
      i2 == Index(u3, ":")
      u4 == IF i2 # 0 THEN SubSeq(u3, 1, i2 - 1) ELSE u3
  IN ToLower(u4)

\* byte order of the tokens that occur in hosts
TokenRank(t) ==
  CASE t = "%zz" -> 1
    [] t = "." -> 2
    [] t = "8" -> 3
    [] t = "A" -> 4
    [] t = "B" -> 5
    [] t = "a" -> 6
    [] t = "b" -> 7
    [] t = "http" -> 8
    [] t = "https" -> 9
    [] t = "x" -> 10
    [] t = "y" -> 11
    [] OTHER -> 12

\* s < t in Go's string order
RECURSIVE StringLess(_, _)
StringLess(s, t) ==
  IF t = <<>> THEN FALSE
  ELSE IF s = <<>> THEN TRUE
  ELSE IF TokenRank(Head(s)) # TokenRank(Head(t))
    THEN TokenRank(Head(s)) < TokenRank(Head(t))
  ELSE StringLess(Tail(s), Tail(t))

\* sort.Strings over the keys of a map
RECURSIVE SortStrings(_)
SortStrings(S) ==
  IF S = {} THEN <<>>
  ELSE LET m == CHOOSE x \in S : \A y \in S \ {x} : StringLess(x, y)
       IN <<m>> \o SortStrings(S \ {m})

\* processURL, subdomain branch: the subdomains map
RECURSIVE SubdomainSet(_)
SubdomainSet(ls) ==
  IF ls = <<>> THEN {}
  ELSE LET fields == Head(ls)
       IN IF fields = <<>> THEN SubdomainSet(Tail(ls))
          ELSE IF Len(fields) < 1 THEN SubdomainSet(Tail(ls))
          ELSE LET subdomain == extractSubdomains(fields[1])
               IN IF subdomain # <<>>
                    THEN {subdomain} \cup SubdomainSet(Tail(ls))
                    ELSE SubdomainSet(Tail(ls))

processSubdomains(body) == SortStrings(SubdomainSet(body))

\* strings.ToLower(config.OutputFormat)
LowerFormat(f) == IF f = "JSON" THEN "json" ELSE f

RenderInit ==
  /\ rcfg \in RenderConfigs
  /\ rbody \in IF rcfg.Subdomain
                 THEN BoundedSeq(SubdomainLineKinds, MaxBody)
                 ELSE BoundedSeq(RenderLineKinds, MaxBody)
  /\ rpc = "ready"
  /\ rout = <<>>
  /\ PipeIdle /\ MainIdle /\ CliIdle /\ LegacyIdle

\* processURL: if config.Subdomain { ... }
RenderSubdomains ==
  /\ rpc = "ready"
  /\ rcfg.Subdomain
  /\ rout' = processSubdomains(rbody)
  /\ rpc' = "done"
  /\ UNCHANGED <<rcfg, rbody, pipeVars, mainVars, cliVars, legacyVars>>

\* processURL: case "json"
RenderJSON ==
  /\ rpc = "ready"
  /\ ~rcfg.Subdomain
  /\ LowerFormat(rcfg.OutputFormat) = "json"
  /\ rout' = processJSONFormat(rbody, rcfg)
  /\ rpc' = "done"
  /\ UNCHANGED <<rcfg, rbody, pipeVars, mainVars, cliVars, legacyVars>>

\* processURL: case "xml"
RenderXML ==
  /\ rpc = "ready"
  /\ ~rcfg.Subdomain
  /\ LowerFormat(rcfg.OutputFormat) = "xml"
  /\ rout' = processXMLFormat(rbody, rcfg)
  /\ rpc' = "done"
  /\ UNCHANGED <<rcfg, rbody, pipeVars, mainVars, cliVars, legacyVars>>

\* processURL: case "csv"
RenderCSV ==
  /\ rpc = "ready"
  /\ ~rcfg.Subdomain
  /\ LowerFormat(rcfg.OutputFormat) = "csv"
  /\ rout' = processCSVFormat(rbody, rcfg)
  /\ rpc' = "done"
  /\ UNCHANGED <<rcfg, rbody, pipeVars, mainVars, cliVars, legacyVars>>

\* processURL: default
RenderText ==
  /\ rpc = "ready"
  /\ ~rcfg.Subdomain
  /\ LowerFormat(rcfg.OutputFormat) \notin {"json", "xml", "csv"}
  /\ rout' = processTextFormat(rbody, rcfg)
  /\ rpc' = "done"
  /\ UNCHANGED <<rcfg, rbody, pipeVars, mainVars, cliVars, legacyVars>>

RenderNext ==
  \/ RenderSubdomains
  \/ RenderJSON
  \/ RenderXML
  \/ RenderCSV
  \/ RenderText

RenderSpec == RenderInit /\ [][RenderNext]_vars

\* ------------------------------------------- claims on the render step
\* the lines that pass the regex filter (and have at least three fields)
PassIdx ==
  {k \in 1..Len(rbody) :
     Len(rbody[k]) >= 3 /\ matchesFilter(rbody[k][1], rcfg.RegexFilter)}

\* ... and then the uniqueness filter, if enabled: first occurrences
UniqueIdx ==
  IF rcfg.UniqueURLs
    THEN {k \in PassIdx : \A j \in PassIdx : j < k => rbody[j][1] # rbody[k][1]}
    ELSE PassIdx

\* ... and of those the first MaxResults, all of them when MaxResults is 0
CappedIdx ==
  IF rcfg.MaxResults > 0
    THEN {k \in UniqueIdx :
            Cardinality({j \in UniqueIdx : j <= k}) <= rcfg.MaxResults}
    ELSE UniqueIdx

Min(a, b) == IF a <= b THEN a ELSE b

\* the records a renderer's output holds, as <<url, length, timestamp>>; the
\* text renderer writes one value per record
EmittedCount ==
  CASE LowerFormat(rcfg.OutputFormat) = "json" -> Len(rout[1].results)
    [] LowerFormat(rcfg.OutputFormat) = "xml" -> Len(rout[2].results)
    [] LowerFormat(rcfg.OutputFormat) = "csv" -> Len(rout) - 1
    [] OTHER -> Len(rout)

EmittedMatches(expected) ==
  CASE LowerFormat(rcfg.OutputFormat) = "json" ->
         /\ rout[1].count = Len(expected)
         /\ Len(rout[1].results) = Len(expected)
         /\ \A k \in 1..Len(expected) :
              /\ rout[1].results[k].url = expected[k][1]
              /\ rout[1].results[k].length = expected[k][2]
              /\ rout[1].results[k].timestamp = expected[k][3]
    [] LowerFormat(rcfg.OutputFormat) = "xml" ->
         /\ rout[2].count = Len(expected)
         /\ Len(rout[2].results) = Len(expected)
         /\ \A k \in 1..Len(expected) :
              /\ rout[2].results[k].url = expected[k][1]
              /\ rout[2].results[k].length = expected[k][2]
              /\ rout[2].results[k].timestamp = expected[k][3]
    [] LowerFormat(rcfg.OutputFormat) = "csv" ->
         /\ Len(rout) = Len(expected) + 1
         /\ \A k \in 1..Len(expected) :
              /\ rout[k + 1][1] = expected[k][1]
              /\ rout[k + 1][2] = expected[k][2]
              /\ rout[k + 1][3] = expected[k][3]
    [] OTHER ->
         /\ Len(rout) = Len(expected)
         /\ \A k \in 1..Len(expected) :
              rout[k] = IF rcfg.Browsable
                          THEN <<"https://web.archive.org/web/",
                                 expected[k][3], "/">> \o expected[k][1]
                          ELSE expected[k][1]

\* C7: what a renderer emits is exactly the first N, in line order, of the
\* records that pass the regex filter and then the uniqueness filter, N being
\* MaxResults when positive and unbounded when 0; with a positive cap the
\* number emitted is min(MaxResults, number passing both filters).
C7_FilterUniqueCap ==
  (rpc = "done" /\ ~rcfg.Subdomain) =>
    /\ EmittedMatches(SeqOfSet(rbody, CappedIdx))
    /\ rcfg.MaxResults > 0 =>
         EmittedCount = Min(rcfg.MaxResults, Cardinality(UniqueIdx))
    /\ rcfg.MaxResults = 0 => EmittedCount = Cardinality(UniqueIdx)

C7_Witness ==
  /\ rpc = "done" /\ ~rcfg.Subdomain
  /\ LowerFormat(rcfg.OutputFormat) = "csv"
  /\ rcfg.UniqueURLs
  /\ rcfg.MaxResults > 0
  /\ Cardinality(UniqueIdx) > rcfg.MaxResults
  /\ Cardinality(PassIdx) > Cardinality(UniqueIdx)
  /\ EmittedCount = rcfg.MaxResults

\* C8 (as stated): with a start and/or end date supplied, the structured
\* renderers (CSV, JSON, XML) emit no record whose date lies outside
\* [start, end]; with no date flag, every record that passes the other
\* filters is emitted, whatever its date.
DateFilterActive == rcfg.StartDate # "" \/ rcfg.EndDate # ""
InDateRange(ts) ==
  LET range == processDateRange(rcfg.StartDate, rcfg.EndDate)
  IN range.start <= ParseTimestamp(ts) /\ ParseTimestamp(ts) <= range.end

EmittedTimestamps ==
  CASE LowerFormat(rcfg.OutputFormat) = "json" ->
         {rout[1].results[k].timestamp : k \in 1..Len(rout[1].results)}
    [] LowerFormat(rcfg.OutputFormat) = "xml" ->
         {rout[2].results[k].timestamp : k \in 1..Len(rout[2].results)}
    [] LowerFormat(rcfg.OutputFormat) = "csv" ->
         {rout[k][3] : k \in 2..Len(rout)}
    [] OTHER -> {}

C8_DateRangeRespected ==
  (rpc = "done" /\ ~rcfg.Subdomain) =>
    /\ DateFilterActive => \A ts \in EmittedTimestamps : InDateRange(ts)
    /\ ~DateFilterActive => EmittedMatches(SeqOfSet(rbody, CappedIdx))

\* ------------------------------------------ v2.0.1: main and processURL
MaxDomains == 2
MaxTicks == 3
MaxMainBody == 1

DomPlain == <<"example", ".", "com">>
DomScheme == <<HTTP, "example", ".", "org">>
Domains == {DomPlain, DomScheme}

\* url.QueryEscape, token by token: letters, digits and "." are kept
QueryEscapeToken(t) ==
  CASE t = "*" -> "%2A"
    [] t = "/" -> "%2F"
    [] t = ":" -> "%3A"
    [] t = HTTP -> "http%3A%2F%2F"
    [] t = HTTPS -> "https%3A%2F%2F"
    [] OTHER -> t
QueryEscape(s) == [k \in 1..Len(s) |-> QueryEscapeToken(s[k])]

\* fmt.Sprintf("https://web.archive.org/cdx/search/cdx?url=%s&fl=original,length,timestamp", escapedURL)
CdxURL(escapedURL) ==
  <<"https://web.archive.org/cdx/search/cdx?url=">> \o escapedURL
    \o <<"&fl=original,length,timestamp">>

\* main.go, part_000 and the concurrent main: the API URL
LegacyApiURL(inputURL) ==
  CdxURL(QueryEscape(<<"*", ".">> \o inputURL \o <<"/", "*">>))

\* processURL: the API URL
ProcessURLApiURL(inputURL) ==
  LET withScheme ==
        IF ~HasPrefix(inputURL, HTTP) /\ ~HasPrefix(inputURL, HTTPS)
          THEN <<HTTP>> \o inputURL
          ELSE inputURL
  IN CdxURL(QueryEscape(<<"*", ".">> \o withScheme \o <<"/", "*">>))

\* processURL: what a successful call writes to its writer
RenderOutput(body, cfg) ==
  IF cfg.Subdomain THEN processSubdomains(body)
  ELSE CASE LowerFormat(cfg.OutputFormat) = "json" -> processJSONFormat(body, cfg)
         [] LowerFormat(cfg.OutputFormat) = "xml" -> processXMLFormat(body, cfg)
         [] LowerFormat(cfg.OutputFormat) = "csv" -> processCSVFormat(body, cfg)
         [] OTHER -> processTextFormat(body, cfg)

MainConfigs ==
  [OutputFormat : {"text", "csv", "json", "xml"}, Subdomain : BOOLEAN,
   Browsable : {FALSE},
   UniqueURLs : {FALSE}, MaxResults : {0}, RegexFilter : {PatNone},
   StartDate : {""}, EndDate : {""}, OutputFile : {"", "out.txt"},
   RateLimit : {0, 10}]

MainBodies == BoundedSeq({LineA, LineC}, MaxMainBody)

FetchErrors == {"failed to fetch data", "HTTP error", "failed to read response"}

MainInit ==
  /\ mcfg \in MainConfigs
  /\ urls \in UNION {[1..k -> Domains] : k \in 0..MaxDomains}
  /\ di = 0
  /\ upc = "start"
  /\ tickerC = 0
  /\ ticks = 0
  /\ admitted = 0
  /\ requests = <<>>
  /\ invoked = <<>>
  /\ outcomes = <<>>
  /\ stderrLog = <<>>
  /\ file = <<>>
  /\ stdout = <<>>
  /\ renderLog = <<>>
  /\ PipeIdle /\ RenderIdle /\ CliIdle /\ LegacyIdle

\* main: newRateLimiter(config.RateLimit).  time.Second / time.Duration(0)
\* is an integer division by zero and time.NewTicker rejects a non-positive
\* interval: with a rate limit below 1 main panics before its loop.
\* the renderLog entry of a domain whose render step did not run
NoRender == [written |-> <<>>, failed |-> FALSE]

NewRateLimiter ==
  /\ upc = "start"
  /\ upc' = IF mcfg.RateLimit <= 0 THEN "panic" ELSE "main"
  /\ UNCHANGED <<mcfg, urls, di, tickerC, ticks, admitted, requests, invoked,
                 outcomes, stderrLog, file, stdout,
                 renderLog>>
  /\ UNCHANGED <<pipeVars, renderVars, cliVars, legacyVars>>

\* the ticker of newRateLimiter fires: a tick is dropped when ticker.C still
\* holds the previous one
Tick ==
  /\ upc \in {"main", "wait", "get"}
  /\ ticks < MaxTicks
  /\ ticks' = ticks + 1
  /\ tickerC' = 1
  /\ UNCHANGED <<mcfg, urls, di, upc, admitted, requests, invoked, outcomes,
                 stderrLog, file, stdout,
                 renderLog>>
  /\ UNCHANGED <<pipeVars, renderVars, cliVars, legacyVars>>

\* main: the loop calls processURL(inputURL, config, rateLimiter), which
\* builds the API URL and reaches rateLimiter.Wait()
CallProcessURL ==
  /\ upc = "main"
  /\ di < Len(urls)
  /\ invoked' = Append(invoked, urls[di + 1])
  /\ upc' = "wait"
  /\ UNCHANGED <<mcfg, urls, di, tickerC, ticks, admitted, requests, outcomes,
                 stderrLog, file, stdout,
                 renderLog>>
  /\ UNCHANGED <<pipeVars, renderVars, cliVars, legacyVars>>

\* <-r.ticker.C takes the buffered tick
AfterReceiveKeepsTick(c) == c
AfterReceive(c) == c - 1

\* RateLimiter.Wait returns
RateLimiterWait ==
  /\ upc = "wait"
  /\ tickerC > 0
  /\ tickerC' = AfterReceive(tickerC)
  /\ admitted' = admitted + 1
  /\ upc' = "get"
  /\ UNCHANGED <<mcfg, urls, di, ticks, requests, invoked, outcomes,
                 stderrLog, file, stdout,
                 renderLog>>
  /\ UNCHANGED <<pipeVars, renderVars, cliVars, legacyVars>>

\* main: after `if err := processURL(...); err != nil { Fprintf(os.Stderr) }`
\* the loop goes on
AfterErrorExits == "exit"
AfterError == "main"

\* processURL: client.Get, the status check or io.ReadAll fails; main reports
FetchFails ==
  /\ upc = "get"
  /\ \E e \in FetchErrors :
       /\ outcomes' = Append(outcomes, e)
       /\ stderrLog' = Append(stderrLog, <<urls[di + 1], e>>)
  /\ requests' = Append(requests, ProcessURLApiURL(urls[di + 1]))
  /\ di' = di + 1
  /\ upc' = AfterError
  /\ renderLog' = Append(renderLog, NoRender)
  /\ UNCHANGED <<mcfg, urls, tickerC, ticks, admitted, invoked, file, stdout>>
  /\ UNCHANGED <<pipeVars, renderVars, cliVars, legacyVars>>

\* processURL: the request succeeds, but os.Create(config.OutputFile) fails
CreateFails ==
  /\ upc = "get"
  /\ mcfg.OutputFile # ""
  /\ outcomes' = Append(outcomes, "error creating output file")
  /\ stderrLog' = Append(stderrLog, <<urls[di + 1], "error creating output file">>)
  /\ requests' = Append(requests, ProcessURLApiURL(urls[di + 1]))
  /\ di' = di + 1
  /\ upc' = AfterError
  /\ renderLog' = Append(renderLog, NoRender)
  /\ UNCHANGED <<mcfg, urls, tickerC, ticks, admitted, invoked, file, stdout>>
  /\ UNCHANGED <<pipeVars, renderVars, cliVars, legacyVars>>

\* bytes of a string
RECURSIVE ByteLen(_)
ByteLen(s) == IF s = <<>> THEN 0 ELSE Len(Head(s)) + ByteLen(Tail(s))

\* bytes of the CSV rows of processCSVFormat: per row four fields, three
\* commas and the line end
RECURSIVE CSVRowsBytes(_)
CSVRowsBytes(acc) ==
  IF acc = <<>> THEN 0
  ELSE ByteLen(Head(acc)[1])
         + ByteLen(<<Head(acc)[2], Head(acc)[3],
                     FormatRFC3339(ParseTimestamp(Head(acc)[3]))>>)
         + 4 + CSVRowsBytes(Tail(acc))

CSVBytes(body, cfg) ==
  ByteLen(<<"URL", "LENGTH", "TIMESTAMP", "DATE">>) + 4
    + CSVRowsBytes(ScanLines(body, cfg, {}, 0, <<>>))

\* csv.NewWriter(writer) buffers in a bufio.Writer of the default size
CsvBufferSize == 4096

\* the render step calls a write on its sink: the text renderer and the
\* subdomain branch once per line, the other renderers at least once
WritesAttempted(body, cfg) ==
  IF cfg.Subdomain THEN processSubdomains(body) # <<>>
  ELSE IF LowerFormat(cfg.OutputFormat) \in {"json", "xml", "csv"} THEN TRUE
  ELSE processTextFormat(body, cfg) # <<>>

\* What the render step returns when the writes to its sink fail ("ok" is
\* nil).  The subdomain branch and processTextFormat drop the result of
\* fmt.Fprintln; json's and xml's Encode return the error of the write;
\* csvWriter.Write reports the sink's error only once its buffer has
\* overflowed, and the error of the deferred csvWriter.Flush is dropped.
WriteError(body, cfg) ==
  IF cfg.Subdomain THEN "ok"
  ELSE CASE LowerFormat(cfg.OutputFormat) = "json" -> "write failed"
         [] LowerFormat(cfg.OutputFormat) = "xml" -> "write failed"
         [] LowerFormat(cfg.OutputFormat) = "csv" ->
              IF CSVBytes(body, cfg) > CsvBufferSize
                THEN "error writing CSV record"
                ELSE "ok"
         [] OTHER -> "ok"

\* processURL: the request succeeds and the response is rendered, to
\* os.Stdout or to the file os.Create has just created (and truncated); the
\* writes to the sink succeed or fail
FetchAndRender ==
  /\ upc = "get"
  /\ \E body \in MainBodies, sinkOK \in BOOLEAN :
       LET failed == ~sinkOK /\ WritesAttempted(body, mcfg)
           written == IF failed THEN <<>> ELSE RenderOutput(body, mcfg)
           err == IF failed THEN WriteError(body, mcfg) ELSE "ok"
       IN /\ IF mcfg.OutputFile # ""
               THEN /\ file' = written
                    /\ UNCHANGED stdout
               ELSE /\ stdout' = stdout \o written
                    /\ UNCHANGED file
          /\ outcomes' = Append(outcomes, err)
          /\ renderLog' = Append(renderLog,
                                 [written |-> written, failed |-> failed])
          /\ stderrLog' = IF err = "ok" THEN stderrLog
                           ELSE Append(stderrLog, <<urls[di + 1], err>>)
          /\ upc' = IF err = "ok" THEN "main" ELSE AfterError
  /\ requests' = Append(requests, ProcessURLApiURL(urls[di + 1]))
  /\ di' = di + 1
  /\ UNCHANGED <<mcfg, urls, tickerC, ticks, admitted, invoked>>
  /\ UNCHANGED <<pipeVars, renderVars, cliVars, legacyVars>>

\* main: the loop is over; the deferred rateLimiter.Stop() stops the ticker
MainExit ==
  /\ upc = "main"
  /\ di = Len(urls)
  /\ upc' = "exit"
  /\ UNCHANGED <<mcfg, urls, di, tickerC, ticks, admitted, requests, invoked,
                 outcomes, stderrLog, file, stdout,
                 renderLog>>
  /\ UNCHANGED <<pipeVars, renderVars, cliVars, legacyVars>>

MainNext ==
  \/ NewRateLimiter
  \/ Tick
  \/ CallProcessURL
  \/ RateLimiterWait
  \/ FetchFails
  \/ CreateFails
  \/ FetchAndRender
  \/ MainExit

MainSpec == MainInit /\ [][MainNext]_vars

\* ------------------------------------------- claims on main of v2.0.1
\* C5: every request follows its own return from RateLimiter.Wait and every
\* return of Wait consumes one tick, so the requests issued never outnumber
\* the returns of Wait, and these never outnumber the ticks fired.
C5_RequestsWithinTicks ==
  /\ Len(requests) <= admitted
  /\ admitted <= ticks
  /\ admitted + tickerC <= ticks

C5_Witness ==
  /\ Len(requests) = 2
  /\ ticks = MaxTicks
  /\ tickerC = 0

IsPrefix(s, t) == Len(s) <= Len(t) /\ \A k \in 1..Len(s) : s[k] = t[k]

\* C6: processURL is invoked once per domain, in file order, whatever the
\* outcome of the earlier domains (at any time the calls made are a prefix of
\* the list, and when main's loop has ended they are the whole list); every
\* failure is reported for its own domain.
C6_EveryDomainProcessed ==
  /\ IsPrefix(invoked, urls)
  /\ upc = "exit" => invoked = urls /\ Len(outcomes) = Len(urls)
  /\ \A k \in 1..Len(outcomes) :
       outcomes[k] # "ok" =>
         \E j \in 1..Len(stderrLog) : stderrLog[j] = <<urls[k], outcomes[k]>>
  /\ Len(stderrLog) = Cardinality({k \in 1..Len(outcomes) : outcomes[k] # "ok"})

C6_Witness ==
  /\ upc = "exit"
  /\ Len(urls) = 2
  /\ outcomes[1] = "HTTP error"
  /\ outcomes[2] = "ok"
  /\ invoked = urls

\* ------------------------------- the mains: flags, API URL, request, output
Versions == {"v1", "v1s", "conc", "v2"}
ModeFlags ==
  [WaybackOnly : BOOLEAN, Browsable : BOOLEAN, SaveCSV : BOOLEAN,
   Subdomain : BOOLEAN]

B2N(b) == IF b THEN 1 ELSE 0

\* main.go: flag.Parse knows no -subdomain; modeCount over three flags
RejectsV1(f) ==
  \/ f.Subdomain
  \/ B2N(f.WaybackOnly) + B2N(f.Browsable) + B2N(f.SaveCSV) > 1

\* part_000: modeCount over four flags
RejectsV1s(f) ==
  B2N(f.WaybackOnly) + B2N(f.Browsable) + B2N(f.SaveCSV) + B2N(f.Subdomain) > 1

\* the concurrent main and main of v2.0.1 count no modes
RejectsConc(f) == FALSE
RejectsV2(f) == FALSE

Rejects(v, f) ==
  CASE v = "v1" -> RejectsV1(f)
    [] v = "v1s" -> RejectsV1s(f)
    [] v = "conc" -> RejectsConc(f)
    [] OTHER -> RejectsV2(f)

ApiURLOf(v, inputURL) ==
  IF v = "v2" THEN ProcessURLApiURL(inputURL) ELSE LegacyApiURL(inputURL)

CliInit ==
  /\ ver \in Versions
  /\ flags \in ModeFlags
  /\ arg \in Domains
  /\ clipc = "start"
  /\ cliRequests = <<>>
  /\ cliWrote = FALSE
  /\ PipeIdle /\ RenderIdle /\ MainIdle /\ LegacyIdle

\* main: flag.Parse and the mode count
ParseAndValidate ==
  /\ clipc = "start"
  /\ clipc' = IF Rejects(ver, flags) THEN "rejected" ELSE "validated"
  /\ UNCHANGED <<ver, flags, arg, cliRequests, cliWrote>>
  /\ UNCHANGED <<pipeVars, renderVars, mainVars, legacyVars>>

\* main: build the API URL and issue the GET; it succeeds or fails
IssueRequest ==
  /\ clipc = "validated"
  /\ cliRequests' = Append(cliRequests, ApiURLOf(ver, arg))
  /\ \E ok \in BOOLEAN : clipc' = IF ok THEN "fetched" ELSE "failed"
  /\ UNCHANGED <<ver, flags, arg, cliWrote>>
  /\ UNCHANGED <<pipeVars, renderVars, mainVars, legacyVars>>

\* main: the output is written
WriteResult ==
  /\ clipc = "fetched"
  /\ cliWrote' = TRUE
  /\ clipc' = "written"
  /\ UNCHANGED <<ver, flags, arg, cliRequests>>
  /\ UNCHANGED <<pipeVars, renderVars, mainVars, legacyVars>>

CliNext ==
  \/ ParseAndValidate
  \/ IssueRequest
  \/ WriteResult

CliSpec == CliInit /\ [][CliNext]_vars

\* ------------------------------------------------- claims on the mains
ModeCount ==
  B2N(flags.WaybackOnly) + B2N(flags.Browsable) + B2N(flags.SaveCSV)
    + B2N(flags.Subdomain)

\* C9 (as stated): in every version, a run with more than one primary mode
\* flag issues no upstream request and writes no output.
C9_MultiModeRejected ==
  ModeCount > 1 => cliRequests = <<>> /\ ~cliWrote

\* C10 (as stated): for a target given without a scheme, every version
\* requests the percent-encoded pattern *.<domain>/* with
\* fl=original,length,timestamp, with nothing but the domain between "*."
\* and "/*".
C10_WildcardQuery ==
  (~HasPrefix(arg, HTTP) /\ ~HasPrefix(arg, HTTPS)) =>
    \A k \in 1..Len(cliRequests) :
      cliRequests[k] =
        <<"https://web.archive.org/cdx/search/cdx?url=", "%2A", ".">> \o arg
          \o <<"%2F", "%2A", "&fl=original,length,timestamp">>

\* --------------------------------- claims on the short lines of a response
\* the response without its lines of fewer than three fields
WithoutShortLines(body) == SelectSeq(body, LAMBDA fields : Len(fields) >= 3)

\* C11 (as stated): in every output mode of v2.0.1, subdomain mode included,
\* the output for a response equals the output for the same response with
\* its lines of fewer than three fields removed.
C11_ShortLinesIgnored ==
  rpc = "done" => rout = RenderOutput(WithoutShortLines(rbody), rcfg)


\* ------------------------------------------- claims on the regex filter
\* C12: matchesFilter accepts every URL when the pattern is empty or does not
\* compile, and a render step run with a pattern that does not compile ends
\* with the output it gives with no pattern at all.
C12_InvalidRegexFailsOpen ==
  /\ \A k \in 1..Len(rbody) :
       rbody[k] # <<>> =>
         /\ matchesFilter(rbody[k][1], PatNone)
         /\ matchesFilter(rbody[k][1], PatInvalid)
  /\ (rpc = "done" /\ rcfg.RegexFilter = PatInvalid) =>
       rout = RenderOutput(rbody, [rcfg EXCEPT !.RegexFilter = PatNone])

\* a text render with the invalid pattern has emitted a URL that the literal
\* pattern would have rejected
C12_Witness ==
  /\ rpc = "done"
  /\ rcfg.RegexFilter = PatInvalid
  /\ rcfg.OutputFormat = "text"
  /\ rout = <<UrlA, UrlB>>
  /\ ~MatchString(PatLiteral, UrlB)


\* --------------------------------------- claims on the subdomain output
\* s up to its first c, or s when c does not occur
Cut(s, c) == IF Index(s, c) # 0 THEN SubSeq(s, 1, Index(s, c) - 1) ELSE s

\* the host as C13 describes it: one leading http:// or https:// stripped,
\* cut at the first '/', then at the first ':', lower-cased
StripOneScheme(u) ==
  IF HasPrefix(u, HTTP) \/ HasPrefix(u, HTTPS) THEN Tail(u) ELSE u
HostAsStated(u) == ToLower(Cut(Cut(Chars(StripOneScheme(u)), "/"), ":"))

\* the URLs of the records of the response: the first fields of its lines of
\* at least three fields
RecordURLs == {rbody[k][1] : k \in {j \in 1..Len(rbody) : Len(rbody[j]) >= 3}}

StrictlyAscending(out) ==
  \A k \in 1..(Len(out) - 1) : StringLess(out[k], out[k + 1])

\* C13 (as stated): in subdomain mode the output is the strictly ascending
\* list of the non-empty hosts of the response URLs, the host being the URL
\* with one leading scheme stripped, cut at '/' and ':' and lower-cased.
C13_SubdomainsSorted ==
  (rpc = "done" /\ rcfg.Subdomain) =>
    /\ StrictlyAscending(rout)
    /\ Range(rout) = {HostAsStated(u) : u \in RecordURLs} \ {<<>>}


\* ------------------- main.go and part_000: from the response to the file
MaxLegacyBody == 3

UrlComma == <<HTTP, "a", "/", "x", ",", "y">>
UrlQuote == <<"b", "/", "\"", "y">>
LineComma == <<UrlComma, "12", TsOld>>
LineQuote == <<UrlQuote, "6", TsNew>>
LegacyLineKinds ==
  {LineBlank, LineShort, LineA, LineA2, LineB, LineBad, LineComma, LineQuote}

\* the runs that pass the mode count: one mode (-save-wayback-csv when none
\* is given); main.go has neither -subdomain nor -unique-urls
LegacyConfigs ==
  {c \in [Version : {"v1", "v1s"},
          Mode : {"wayback", "browsable", "csv", "subdomain"},
          UniqueUrls : BOOLEAN] :
     c.Version = "v1" => c.Mode # "subdomain" /\ ~c.UniqueUrls}

LegacyInit ==
  /\ lcfg \in LegacyConfigs
  /\ lbody \in BoundedSeq(LegacyLineKinds, MaxLegacyBody)
  /\ lscanned = 0
  /\ lpc = "scan"
  /\ loutput = <<>>
  /\ lsubdomainSet = {}
  /\ lcollected = <<>>
  /\ lfile = <<>>
  /\ PipeIdle /\ RenderIdle /\ MainIdle /\ CliIdle

\* fmt.Sprintf("%s,%s,%s", originalURL, length, timestamp)
SprintfCSV(originalURL, length, timestamp) ==
  originalURL \o <<",", length, ",", timestamp>>

\* the range loop's body for a line of at least three fields: what it
\* appends to output and adds to subdomainSet
ScanFields(fields, cfg) ==
  LET originalURL == fields[1]
      length == fields[2]
      timestamp == fields[3]
  IN CASE cfg.Mode = "subdomain" ->
            LET p == UrlParse(originalURL)
            IN [append |-> <<>>,
                hosts |-> IF p.err \/ p.Host = <<>> THEN {} ELSE {p.Host}]
       [] cfg.Mode = "wayback" -> [append |-> <<originalURL>>, hosts |-> {}]
       [] cfg.Mode = "browsable" ->
            [append |-> <<BrowsableLink(timestamp, originalURL)>>, hosts |-> {}]
       [] OTHER ->
            [append |-> <<SprintfCSV(originalURL, length, timestamp)>>,
             hosts |-> {}]

\* main: one iteration of `for _, line := range lines`
LegacyScanLine ==
  /\ lpc = "scan"
  /\ lscanned < Len(lbody)
  /\ LET fields == lbody[lscanned + 1] IN
       IF fields = <<>> \/ Len(fields) < 3
         THEN UNCHANGED <<loutput, lsubdomainSet>>
         ELSE /\ loutput' = loutput \o ScanFields(fields, lcfg).append
              /\ lsubdomainSet' = lsubdomainSet \cup ScanFields(fields, lcfg).hosts
  /\ lscanned' = lscanned + 1
  /\ UNCHANGED <<lcfg, lbody, lpc, lcollected, lfile>>
  /\ UNCHANGED <<pipeVars, renderVars, mainVars, cliVars>>

\* the orders in which a range over a map can visit its keys
Orderings(S) ==
  {s \in [1..Cardinality(S) -> S] : \A x \in S : \E k \in DOMAIN s : s[k] = x}

\* main: the loop is over; in subdomain mode the keys of subdomainSet are
\* appended to output, in the order the map iteration yields them
LegacyScanDone ==
  /\ lpc = "scan"
  /\ lscanned = Len(lbody)
  /\ \E order \in Orderings(IF lcfg.Mode = "subdomain" THEN lsubdomainSet ELSE {}) :
       /\ loutput' = loutput \o order
       /\ lcollected' = loutput \o order
  /\ lpc' = "unique"
  /\ UNCHANGED <<lcfg, lbody, lscanned, lsubdomainSet, lfile>>
  /\ UNCHANGED <<pipeVars, renderVars, mainVars, cliVars>>

\* uniqueStrings: set is the map of the items seen, out the slice built
RECURSIVE UniqueLoop(_, _, _)
UniqueLoop(input, set, out) ==
  IF input = <<>> THEN out
  ELSE IF Head(input) \notin set
    THEN UniqueLoop(Tail(input), set \cup {Head(input)}, Append(out, Head(input)))
    ELSE UniqueLoop(Tail(input), set, out)

RECURSIVE UniqueStringsKeepLast(_)
UniqueStringsKeepLast(input) ==
  IF input = <<>> THEN <<>>
  ELSE IF \E k \in 2..Len(input) : input[k] = Head(input)
    THEN UniqueStringsKeepLast(Tail(input))
    ELSE <<Head(input)>> \o UniqueStringsKeepLast(Tail(input))

uniqueStrings(input) == UniqueLoop(input, {}, <<>>)

\* main: if *uniqueUrls { output = uniqueStrings(output) }
LegacyRemoveDuplicates ==
  /\ lpc = "unique"
  /\ loutput' = IF lcfg.UniqueUrls THEN uniqueStrings(loutput) ELSE loutput
  /\ lpc' = "write"
  /\ UNCHANGED <<lcfg, lbody, lscanned, lsubdomainSet, lcollected, lfile>>
  /\ UNCHANGED <<pipeVars, renderVars, mainVars, cliVars>>

\* strings.Split(s, sep) for a one-token separator
RECURSIVE Split(_, _)
Split(s, sep) ==
  LET i == Index(s, sep)
  IN IF i = 0 THEN <<s>>
     ELSE <<SubSeq(s, 1, i - 1)>> \o Split(SubSeq(s, i + 1, Len(s)), sep)

\* encoding/csv, Writer.Write: a field that holds the delimiter or a quote is
\* written between quotes with its quotes doubled; fields are joined by ','
FieldNeedsQuotes(field) == \E k \in 1..Len(field) : field[k] \in {",", "\""}

RECURSIVE DoubleQuotes(_)
DoubleQuotes(field) ==
  IF field = <<>> THEN <<>>
  ELSE (IF Head(field) = "\"" THEN <<"\"", "\"">> ELSE <<Head(field)>>)
         \o DoubleQuotes(Tail(field))

CsvField(field) ==
  IF FieldNeedsQuotes(field)
    THEN <<"\"">> \o DoubleQuotes(field) \o <<"\"">>
    ELSE field

RECURSIVE CsvWrite(_)
CsvWrite(record) ==
  IF record = <<>> THEN <<>>
  ELSE IF Len(record) = 1 THEN CsvField(record[1])
  ELSE CsvField(record[1]) \o <<",">> \o CsvWrite(Tail(record))

\* main, CSV mode: the header, then per item of output the fields that
\* strings.Split(line, ",") returns
LegacyCSVFile(out) ==
  <<CsvWrite(<<(<<"URL">>), <<"LENGTH">>, <<"TIMESTAMP">>>>)>> \o
  [k \in 1..Len(out) |-> CsvWrite(Split(out[k], ","))]

\* main: os.Create succeeds and the CSV file is written
LegacyWriteCSV ==
  /\ lpc = "write"
  /\ lcfg.Mode = "csv"
  /\ lfile' = LegacyCSVFile(loutput)
  /\ lpc' = "done"
  /\ UNCHANGED <<lcfg, lbody, lscanned, loutput, lsubdomainSet, lcollected>>
  /\ UNCHANGED <<pipeVars, renderVars, mainVars, cliVars>>

\* main: ioutil.WriteFile(*outputFile, strings.Join(output, "\n")) succeeds
LegacyWriteText ==
  /\ lpc = "write"
  /\ lcfg.Mode # "csv"
  /\ lfile' = loutput
  /\ lpc' = "done"
  /\ UNCHANGED <<lcfg, lbody, lscanned, loutput, lsubdomainSet, lcollected>>
  /\ UNCHANGED <<pipeVars, renderVars, mainVars, cliVars>>

\* main: os.Create or ioutil.WriteFile fails; os.Exit(1)
LegacyWriteFails ==
  /\ lpc = "write"
  /\ lpc' = "exit1"
  /\ UNCHANGED <<lcfg, lbody, lscanned, loutput, lsubdomainSet, lcollected,
                 lfile>>
  /\ UNCHANGED <<pipeVars, renderVars, mainVars, cliVars>>

LegacyNext ==
  \/ LegacyScanLine
  \/ LegacyScanDone
  \/ LegacyRemoveDuplicates
  \/ LegacyWriteCSV
  \/ LegacyWriteText
  \/ LegacyWriteFails

LegacySpec == LegacyInit /\ [][LegacyNext]_vars

\* ------------------------------------- claims on the uniqueness filter
\* the first occurrences of the values of s, in the order of s
FirstOccurrences(s) ==
  SeqOfSet(s, {k \in 1..Len(s) : \A j \in 1..(k - 1) : s[j] # s[k]})

NoValueTwice(s) == \A j, k \in 1..Len(s) : s[j] = s[k] => j = k

\* the renderers of v2.0.1 run with -unique and no other filter
UniqueOnly ==
  [OutputFormat |-> "text", Subdomain |-> FALSE, Browsable |-> FALSE,
   UniqueURLs |-> TRUE, MaxResults |-> 0, RegexFilter |-> PatNone,
   StartDate |-> "", EndDate |-> ""]

\* C14: uniqueStrings returns the first occurrences of its input in input
\* order, so no value twice, and returns its own output unchanged; the seen
\* set of the v2.0.1 renderers does the same with the URLs of the records.
C14_UniqueKeepsFirst ==
  /\ (lpc \in {"write", "done", "exit1"} /\ lcfg.UniqueUrls) =>
       /\ loutput = FirstOccurrences(lcollected)
       /\ NoValueTwice(loutput)
       /\ uniqueStrings(loutput) = loutput
  /\ LET emitted == processTextFormat(lbody, UniqueOnly)
         accepted == ScanLines(lbody, UniqueOnly, {}, 0, <<>>)
     IN /\ emitted = FirstOccurrences(processTextFormat(lbody,
                         [UniqueOnly EXCEPT !.UniqueURLs = FALSE]))
        /\ NoValueTwice(emitted)
        /\ ScanLines(accepted, UniqueOnly, {}, 0, <<>>) = accepted

\* uniqueStrings has dropped the second occurrence of a URL that came back
\* after another one
C14_Witness ==
  /\ lpc = "done"
  /\ lcfg.UniqueUrls
  /\ lcollected = <<UrlA, UrlB, UrlA>>
  /\ loutput = <<UrlA, UrlB>>
  /\ lfile = loutput


\* ------------------------------------------------- claims on the CSV files
\* a CSV line read back by the standard rules: ',' separates the fields, a
\* field that starts with a quote runs to its closing quote, and a doubled
\* quote inside it is one quote
RECURSIVE CsvReadFrom(_, _, _, _)
CsvReadFrom(rest, quoted, cur, acc) ==
  IF rest = <<>> THEN Append(acc, cur)
  ELSE LET t == Head(rest)
           r == Tail(rest)
       IN IF quoted
            THEN IF t = "\""
                   THEN IF r # <<>> /\ Head(r) = "\""
                          THEN CsvReadFrom(Tail(r), TRUE, Append(cur, "\""), acc)
                          ELSE CsvReadFrom(r, FALSE, cur, acc)
                   ELSE CsvReadFrom(r, TRUE, Append(cur, t), acc)
            ELSE IF t = "," THEN CsvReadFrom(r, FALSE, <<>>, Append(acc, cur))
            ELSE IF t = "\"" /\ cur = <<>> THEN CsvReadFrom(r, TRUE, cur, acc)
            ELSE CsvReadFrom(r, FALSE, Append(cur, t), acc)

CsvRead(line) == CsvReadFrom(line, FALSE, <<>>, <<>>)

\* the records of the response, as url, length, timestamp
RecordOf(fields) == <<fields[1], <<fields[2]>>, <<fields[3]>>>>
LegacyRecords ==
  LET wf == SeqOfSet(lbody, {k \in 1..Len(lbody) : Len(lbody[k]) >= 3})
      all == [k \in 1..Len(wf) |-> RecordOf(wf[k])]
  IN IF lcfg.UniqueUrls THEN FirstOccurrences(all) ELSE all

\* C15 (as stated): the CSV file holds, after its header, one row per record
\* whose first three columns read back are the record's url, length and
\* timestamp, also when the url holds a comma.
C15_CSVRoundTrip ==
  (lpc = "done" /\ lcfg.Mode = "csv") =>
    /\ Len(lfile) = Len(LegacyRecords) + 1
    /\ \A k \in 1..Len(LegacyRecords) :
         LET row == CsvRead(lfile[k + 1])
         IN Len(row) >= 3 /\ SubSeq(row, 1, 3) = LegacyRecords[k]


\* --------------------------------------- claims on the sink of v2.0.1
\* C16 (as stated): a render step whose writes to the sink fail returns an
\* error to its caller: no domain whose writes failed has the outcome "ok".
C16_WriteFailureReported ==
  \A k \in 1..Len(renderLog) : renderLog[k].failed => outcomes[k] # "ok"

\* what the render steps of the finished domains wrote, in file order
RECURSIVE WrittenSoFar(_)
WrittenSoFar(log) ==
  IF log = <<>> THEN <<>> ELSE Head(log).written \o WrittenSoFar(Tail(log))

\* C18 (as stated): with an output file, what the render step of a finished
\* domain wrote stays in the file while and after the later domains are
\* processed: the file holds the output of the finished domains, in file
\* order.
C18_SinkKeepsEarlierDomains ==
  mcfg.OutputFile # "" => file = WrittenSoFar(renderLog)


\* ------------------------- claims on the collector of the concurrent version
\* main's collector loop run over the values rs with the settings cfg:
\* processedResults at the end of the loop (seen is uniqueURLs)
RECURSIVE CollectorLoop(_, _, _, _)
CollectorLoop(rs, cfg, seen, acc) ==
  IF rs = <<>> THEN acc
  ELSE LET result == Head(rs)
       IN IF result.Error /\ cfg.Verbose
            THEN CollectorLoop(Tail(rs), cfg, seen, acc)
          ELSE IF cfg.UniqueURLs
            THEN IF result.URL \notin seen
                   THEN CollectorLoop(Tail(rs), cfg, seen \cup {result.URL},
                                      Append(acc, result))
                   ELSE CollectorLoop(Tail(rs), cfg, seen, acc)
          ELSE CollectorLoop(Tail(rs), cfg, seen, Append(acc, result))

\* C17 (as stated): the records the collector has appended are, as a
\* multiset, those it appends from the same arrivals with verbose on and
\* with verbose off.
C17_VerboseOnlyDiagnoses ==
  /\ SameBag(processedResults,
             CollectorLoop(received, [config EXCEPT !.Verbose = TRUE], {}, <<>>))
  /\ SameBag(processedResults,
             CollectorLoop(received, [config EXCEPT !.Verbose = FALSE], {}, <<>>))

\* C19 (as stated): with a concurrency limit of 1 the records arrive in the
\* order of their lines: what the collector has received is at any time the
\* beginning of the records of the well-formed lines in response order.
C19_ResponseOrder ==
  config.Concurrent = 1 => IsPrefix(ReceivedTriples, DeliveredTriples)

=============================================================================
